---- MODULE Spec2Model ----
(***************************************************************************)
(* Model of the economy simulation engine (src/src/sim.py, class           *)
(* EconomyNetwork) and of the anomaly detector it calls                    *)
(* (src/src/anomaly_detection.py).                                         *)
(*                                                                         *)
(* Propensities (alpha, rho), the volatility and the random draws are     *)
(* integers in hundredths (50 is 0.50).  Savings, consumption, wages and   *)
(* discount factors are exact rationals <<n, d>> in lowest terms with      *)
(* d > 0, so the algebra of the economic model is checked in exact         *)
(* arithmetic (floating point rounding is outside the model).  A pair with *)
(* d = 0 is not a number: ZeroDiv stands for Python's ZeroDivisionError,   *)
(* Ovf for a value too large for the model's integers.                     *)
(*                                                                         *)
(* sys is the state of the earlier engine of src/sim.py (its dict of       *)
(* states, as a sequence from tick 0 on), which the paired runs step side  *)
(* by side with the engine of src/src/sim.py; elsewhere it stays empty.    *)
(***************************************************************************)
EXTENDS Integers, Sequences, FiniteSets, TLC

VARIABLES engine, sens, mem_input, t, history, ctor, lastCall, badOverride,
          sys

vars == <<engine, sens, mem_input, t, history, ctor, lastCall, badOverride,
          sys>>

----------------------------------------------------------------------------
(* Bounds of the model *)

MaxTicks == 3

MaxMem == 3

MaxMagnitude == 1000000000

\* longest series handed to the anomaly detector when it is called directly
MaxLen == 5

\* memory and number of step() calls of the long runs
LongMem == 4

LongTicks == 5

\* number of step() calls of the paired runs
PairTicks == 4

----------------------------------------------------------------------------
(* Exact rational arithmetic *)

ZeroDiv == <<1, 0>>

Ovf == <<2, 0>>

Abs(x) == IF x < 0 THEN -x ELSE x

RECURSIVE GCD(_, _)
GCD(a, b) == IF b = 0 THEN a ELSE GCD(b, a % b)

IsNum(x) == x[2] > 0

Fits(a, b) == b = 0 \/ Abs(a) <= MaxMagnitude \div Abs(b)

R(n, d) == LET g == GCD(Abs(n), d) IN <<n \div g, d \div g>>

Zero == <<0, 1>>

One == <<1, 1>>

RNeg(x) == IF IsNum(x) THEN <<-x[1], x[2]>> ELSE x

RMul(x, y) ==
    IF ~IsNum(x) THEN x
    ELSE IF ~IsNum(y) THEN y
    ELSE LET g1 == GCD(Abs(x[1]), y[2])
             g2 == GCD(Abs(y[1]), x[2])
             n1 == x[1] \div g1
             d2 == y[2] \div g1
             n2 == y[1] \div g2
             d1 == x[2] \div g2
         IN  IF Fits(n1, n2) /\ Fits(d1, d2) THEN <<n1 * n2, d1 * d2>> ELSE Ovf

RAdd(x, y) ==
    IF ~IsNum(x) THEN x
    ELSE IF ~IsNum(y) THEN y
    ELSE LET g  == GCD(x[2], y[2])
             m1 == y[2] \div g
             m2 == x[2] \div g
         IN  IF Fits(x[1], m1) /\ Fits(y[1], m2) /\ Fits(x[2], m1)
             THEN R(x[1] * m1 + y[1] * m2, x[2] * m1)
             ELSE Ovf

RSub(x, y) == RAdd(x, RNeg(y))

\* x ** -1 and 1 / x: ZeroDivisionError when x is zero
RInv(x) ==
    IF ~IsNum(x) THEN x
    ELSE IF x[1] = 0 THEN ZeroDiv
    ELSE IF x[1] < 0 THEN <<-x[2], -x[1]>> ELSE <<x[2], x[1]>>

RDiv(x, y) == IF ~IsNum(x) THEN x ELSE RMul(x, RInv(y))

----------------------------------------------------------------------------
(* Anomaly detector: src/src/anomaly_detection.py.  A series is a sequence *)
(* of integers in hundredths; residuals are integers in a common positive  *)
(* unit, which the IQR test does not depend on.                            *)

RECURSIVE ISumTo(_, _)
ISumTo(s, i) == IF i = 0 THEN 0 ELSE ISumTo(s, i - 1) + s[i]

ISum(s) == ISumTo(s, Len(s))

RECURSIVE Insert(_, _)
Insert(x, u) ==
    IF u = <<>> THEN <<x>>
    ELSE IF x <= Head(u) THEN <<x>> \o u
    ELSE <<Head(u)>> \o Insert(x, Tail(u))

RECURSIVE SortTo(_, _)
SortTo(s, i) == IF i = 0 THEN <<>> ELSE Insert(s[i], SortTo(s, i - 1))

\* ascending order, as np.percentile sorts its input
SortAsc(s) == SortTo(s, Len(s))

\* 100 * np.percentile(a, q): linear interpolation between closest ranks
percentile(a, q) ==
    LET srt == SortAsc(a)
        m   == Len(a)
        pos == q * (m - 1)
        lo  == pos \div 100
        rem == pos % 100
    IN  IF lo + 1 >= m THEN 100 * srt[m]
        ELSE 100 * srt[lo + 1] + rem * (srt[lo + 2] - srt[lo + 1])

\* an IQR test that any residual outside the fences makes true
iqr_AnyResidual(residuals, factor) ==
    LET q1          == percentile(residuals, 25)
        q3          == percentile(residuals, 75)
        iqr_range   == q3 - q1
        lower_bound == factor[2] * q1 - factor[1] * iqr_range
        upper_bound == factor[2] * q3 + factor[1] * iqr_range
    IN  \E i \in 1..Len(residuals) :
            \/ 100 * factor[2] * residuals[i] < lower_bound
            \/ 100 * factor[2] * residuals[i] > upper_bound

\* _iqr(residuals, factor): is the LAST residual outside the IQR fences;
\* factor is the rational <<n, d>>, both sides are scaled by 100 * d
iqr(residuals, factor) ==
    LET q1          == percentile(residuals, 25)
        q3          == percentile(residuals, 75)
        iqr_range   == q3 - q1
        lower_bound == factor[2] * q1 - factor[1] * iqr_range
        upper_bound == factor[2] * q3 + factor[1] * iqr_range
        last        == 100 * factor[2] * residuals[Len(residuals)]
    IN  last < lower_bound \/ last > upper_bound

\* period = max(2, math.ceil(n * seasonality)) with seasonality = 0.05
period(n) == LET c == (n + 19) \div 20 IN IF c > 2 THEN c ELSE 2

\* seasonal_decompose refuses a series shorter than two complete cycles
DecomposeRaises(n) == n < 2 * period(n)

\* 8 * the centred moving average of the period-2 filter [0.25, 0.5, 0.25],
\* defined at the 1-based positions 2 .. n-1
MovAvg(x, i) == 2 * (x[i - 1] + 2 * x[i] + x[i + 1])

\* least-squares line k*i + c through the trend at the 0-based indices
\* a .. b-1 (one point: the minimum-norm solution; two points: the chord)
FitLine(x, a, b) ==
    IF b - a = 1
    THEN LET v == MovAvg(x, a + 1)
         IN  <<(v * a) \div (a * a + 1), v \div (a * a + 1)>>
    ELSE LET v1 == MovAvg(x, a + 1)
             v2 == MovAvg(x, a + 2)
         IN  <<v2 - v1, v1 - (v2 - v1) * a>>

\* 8 * trend, with extrapolate_trend="freq" (period - 1 = 1 point per end)
Trend(x) ==
    LET n     == Len(x)
        front == FitLine(x, 1, IF 3 < n - 2 THEN 3 ELSE n - 2)
        back  == FitLine(x, IF 1 > n - 4 THEN 1 ELSE n - 4, n - 2)
    IN  [i \in 1..n |->
            IF i = 1 THEN front[2]
            ELSE IF i = n THEN back[1] * (n - 1) + back[2]
            ELSE MovAvg(x, i)]

\* residuals of the additive decomposition with period 2, in units of
\* 1 / (16 * c0 * c1), c0 and c1 the number of observations of each phase
Residuals(x) ==
    LET n   == Len(x)
        tr  == Trend(x)
        det == [i \in 1..n |-> 8 * x[i] - tr[i]]
        c0  == (n + 1) \div 2
        c1  == n \div 2
        s0  == ISum([j \in 1..c0 |-> det[2 * j - 1]])
        s1  == ISum([j \in 1..c1 |-> det[2 * j]])
        sea == s0 * c1 - s1 * c0
    IN  [i \in 1..n |->
            2 * c0 * c1 * det[i] - (IF i % 2 = 1 THEN sea ELSE -sea)]

IqrFactor == <<3, 2>>

\* the outcomes of detect_anomaly: a ValueError and its message, or a bool
Raise(error) == [raised |-> TRUE, error |-> error, value |-> FALSE]

Return(value) == [raised |-> FALSE, error |-> "none", value |-> value]

\* a detector that looks at the length only when the decomposition does
detect_anomaly_DecomposeFirst(timeseries) ==
    IF DecomposeRaises(Len(timeseries)) THEN Raise("decompose")
    ELSE IF timeseries = <<>> THEN Raise("empty")
    ELSE Return(iqr(Residuals(timeseries), IqrFactor))

\* detect_anomaly(timeseries): the emptiness check, the decomposition, the
\* check of the residuals, the IQR test
detect_anomaly(timeseries) ==
    IF timeseries = <<>> THEN Raise("empty")
    ELSE IF DecomposeRaises(Len(timeseries)) THEN Raise("decompose")
    ELSE IF Residuals(timeseries) = <<>> THEN Raise("residuals")
    ELSE Return(iqr(Residuals(timeseries), IqrFactor))

----------------------------------------------------------------------------
(* Simulation engine: src/src/sim.py, class EconomyNetwork *)

PropMin == 1

PropMax == 99

Half == <<1, 2>>

\* values offered to the constructor (propensities and sens in hundredths)
SensSet == {-50, 0, 50}

MemSet == 1..MaxMem

\* [discounts, prop, savings, consumption_init, wages_init]
EconSet ==
    { [discounts |-> <<Zero, Zero>>, prop |-> <<50, 50>>,
       savings |-> <<One, One>>, flow |-> <<Zero, Zero>>],
      [discounts |-> <<Zero, Zero>>, prop |-> <<0, 100>>,
       savings |-> <<Zero, Zero>>, flow |-> <<Zero, Zero>>],
      [discounts |-> <<Half, Zero>>, prop |-> <<50, 50>>,
       savings |-> <<<<-3, 1>>, One>>, flow |-> <<One, <<2, 1>>>>],
      [discounts |-> <<One, Half>>, prop |-> <<50, 50>>,
       savings |-> <<One, One>>, flow |-> <<One, <<2, 1>>>>],
      [discounts |-> <<Zero, Zero>>, prop |-> <<50, 50>>,
       savings |-> <<<<-3, 1>>, One>>, flow |-> <<Zero, Zero>>],
      [discounts |-> <<Zero, Zero>>, prop |-> <<150, 50>>,
       savings |-> <<One, One>>, flow |-> <<Zero, Zero>>],
      [discounts |-> <<Zero, Zero>>, prop |-> <<50, -50>>,
       savings |-> <<One, One>>, flow |-> <<Zero, Zero>>] }

None == <<>>

Ov(v) == [kind |-> "override", v |-> v]

Dr(s) == [kind |-> "draw", v |-> s]

\* inputs of one step(): for each propensity an override, or no override
\* and the outcome of its random.uniform(-sens, sens) as a sign of sens
StepInputs ==
    { <<Dr(-1), Dr(1)>>, <<Dr(1), Dr(-1)>>, <<Dr(0), Dr(0)>>,
      <<Ov(0), Dr(-1)>>, <<Dr(1), Ov(0)>>,
      <<Ov(50), Ov(50)>>, <<Ov(100), Ov(100)>>,
      <<Ov(50), Dr(1)>>, <<Dr(-1), Ov(100)>> }

NoCall ==
    [op |-> "none", raised |-> "none", args |-> None,
     alpha_in |-> None, rho_in |-> None,
     fallback |-> FALSE, detector |-> "none", alpha_vals |-> None,
     rho_vals |-> None, error |-> "none", ret |-> None]

Last(h) == h[Len(h)]

\* a slice that keeps everything
LastN_NoTrim(s, n) == s

\* s[-n:]
LastN(s, n) == IF Len(s) <= n THEN s ELSE SubSeq(s, Len(s) - n + 1, Len(s))

\* a list that is never trimmed
DequeAppend_NoEvict(h, x, maxlen) == Append(h, x)

\* a full deque that replaces its newest item
DequeAppend_Overwrite(h, x, maxlen) ==
    IF Len(h) = maxlen THEN Append(SubSeq(h, 1, Len(h) - 1), x) ELSE Append(h, x)

\* deque(maxlen=...).append: a full deque drops its leftmost item
DequeAppend(h, x, maxlen) ==
    IF Len(h) = maxlen THEN Append(Tail(h), x) ELSE Append(h, x)

\* a validation that lets a memory of one through
InvalidArgs_MemOne(a) ==
    \/ a.sens <= 0
    \/ a.mem_input < 1
    \/ ~(\A i \in 1..2 : 0 <= a.prop[i] /\ a.prop[i] <= 100)

\* the parameter validation of __init__
InvalidArgs(a) ==
    \/ a.sens <= 0
    \/ a.mem_input < 2
    \/ ~(\A i \in 1..2 : 0 <= a.prop[i] /\ a.prop[i] <= 100)

initial_state(a) ==
    [beta |-> a.discounts[1], delta |-> a.discounts[2],
     alpha |-> a.prop[1], rho |-> a.prop[2],
     outliers |-> [alpha |-> <<FALSE>>, rho |-> <<FALSE>>],
     savings_households |-> a.savings[1], savings_firms |-> a.savings[2],
     consumption |-> a.consumption_init, wages |-> a.wages_init]

get_values(h, key) ==
    [i \in 1..Len(h) |-> IF key = "alpha" THEN h[i].alpha ELSE h[i].rho]

IMax(x, y) == IF x < y THEN y ELSE x

IMin(x, y) == IF y < x THEN y ELSE x

\* a random walk that is not clamped
ResolveProp_NoClamp(in, prevval, s) ==
    IF in.kind = "override" THEN in.v ELSE prevval + in.v * s

\* a resolution that clamps the override too
ResolveProp_ClampAll(in, prevval, s) ==
    IMax(PropMin, IMin(PropMax, IF in.kind = "override" THEN in.v
                                 ELSE prevval + in.v * s))

\* a random walk that is clamped from above only
ResolveProp_NoFloor(in, prevval, s) ==
    IF in.kind = "override" THEN in.v
    ELSE IMin(PropMax, prevval + in.v * s)

\* next propensity: the override verbatim, else the clamped random walk
ResolveProp(in, prevval, s) ==
    IF in.kind = "override" THEN in.v
    ELSE IMax(PropMin, IMin(PropMax, prevval + in.v * s))

\* household_factor / firm_factor: (1 / p - 1) / (1 - discount)
factor(p, discount) ==
    RDiv(RSub(RDiv(One, R(p, 100)), One), RSub(One, discount))

\* wages from the two factors and the previous savings
wages_eq(household_factor, firm_factor, prev) ==
    LET h1    == RAdd(One, household_factor)
        f1    == RAdd(One, firm_factor)
        share == RMul(RInv(f1), prev.savings_firms)
    IN  RAdd(RMul(RInv(RSub(RMul(h1, f1), One)),
                  RAdd(share, prev.savings_households)),
             share)

\* a consumption that leaves the household savings out
consumption_eq_NoSavings(household_factor, wages, prev) ==
    RMul(RInv(RAdd(One, household_factor)), wages)

\* consumption from wages, household savings and the household factor
consumption_eq(household_factor, wages, prev) ==
    RMul(RInv(RAdd(One, household_factor)), RAdd(wages, prev.savings_households))

\* the outcome of the try block: the values, and whether a division by
\* zero was raised somewhere in it (or the model's integers were exceeded)
Solved(household_factor, firm_factor, wages, consumption) ==
    [wages |-> wages, consumption |-> consumption,
     zde |-> ZeroDiv \in {household_factor, firm_factor, wages, consumption},
     ovf |-> /\ Ovf \in {household_factor, firm_factor, wages, consumption}
             /\ ZeroDiv \notin {household_factor, firm_factor, wages, consumption}]

SolveFlows(household_factor, firm_factor, wages, prev) ==
    Solved(household_factor, firm_factor, wages,
           consumption_eq(household_factor, wages, prev))

SolveFactors(household_factor, firm_factor, prev) ==
    SolveFlows(household_factor, firm_factor,
               wages_eq(household_factor, firm_factor, prev), prev)

\* the try block of step(): wages and consumption, or ZeroDiv / Ovf
Equilibrium(prev, alpha, rho) ==
    SolveFactors(factor(alpha, prev.beta), factor(rho, prev.delta), prev)

\* except ZeroDivisionError: keep the previous wages and consumption
Fallback(prev, eq) ==
    [wages |-> IF eq.zde THEN prev.wages ELSE eq.wages,
     consumption |-> IF eq.zde THEN prev.consumption ELSE eq.consumption,
     fallback |-> eq.zde, ovf |-> eq.ovf]

\* an update that forgets the outflow
update_savings_NoOutflow(savings, inflow, outflow) == RAdd(savings, inflow)

\* savings' = savings + inflow - outflow
update_savings(savings, inflow, outflow) == RSub(RAdd(savings, inflow), outflow)

\* the anomaly check of a full history: detect_anomaly on alpha_vals, then
\* on rho_vals; either call may raise
Detected(alpha_vals, rho_vals, alpha_det, rho_det) ==
    [raises |-> alpha_det.raised \/ rho_det.raised,
     alpha |-> alpha_det.value, rho |-> rho_det.value,
     alpha_vals |-> alpha_vals, rho_vals |-> rho_vals]

DetectBoth(alpha_vals, rho_vals) ==
    Detected(alpha_vals, rho_vals,
             detect_anomaly(alpha_vals), detect_anomaly(rho_vals))

\* alpha_vals = self.get_values("alpha") + [alpha], and the same for rho
AnomalyCheck(h, alpha, rho) ==
    DetectBoth(Append(get_values(h, "alpha"), alpha),
               Append(get_values(h, "rho"), rho))

\* the else branch: no detector call, both flags False
NotChecked ==
    [raises |-> FALSE, alpha |-> FALSE, rho |-> FALSE,
     alpha_vals |-> None, rho_vals |-> None]

\* outliers whose newest flag is overwritten once the history is full
Outliers_NoShift(full, mem, prev, det) ==
    IF full
    THEN [alpha |-> Append(SubSeq(prev.outliers.alpha, 1,
                                  Len(prev.outliers.alpha) - 1), det.alpha),
          rho   |-> Append(SubSeq(prev.outliers.rho, 1,
                                  Len(prev.outliers.rho) - 1), det.rho)]
    ELSE [alpha |-> Append(prev.outliers.alpha, FALSE),
          rho   |-> Append(prev.outliers.rho, FALSE)]

\* the outliers of the new state
Outliers(full, mem, prev, det) ==
    IF full
    THEN [alpha |-> LastN(Append(prev.outliers.alpha, det.alpha), mem),
          rho   |-> LastN(Append(prev.outliers.rho, det.rho), mem)]
    ELSE [alpha |-> Append(prev.outliers.alpha, FALSE),
          rho   |-> Append(prev.outliers.rho, FALSE)]

\* the new state
NewState(prev, alpha, rho, fl, outliers) ==
    [beta |-> prev.beta, delta |-> prev.delta,
     alpha |-> alpha, rho |-> rho, outliers |-> outliers,
     savings_households |->
         update_savings(prev.savings_households, fl.wages, fl.consumption),
     savings_firms |->
         update_savings(prev.savings_firms, fl.consumption, fl.wages),
     consumption |-> fl.consumption, wages |-> fl.wages]

Outcome(full, det, fl, state) ==
    [raises |-> full /\ det.raises, fallback |-> fl.fallback,
     detector |-> IF ~full THEN "skipped"
                  ELSE IF det.raises THEN "raised" ELSE "ran",
     alpha_vals |-> det.alpha_vals, rho_vals |-> det.rho_vals,
     representable |-> /\ ~fl.ovf
                       /\ IsNum(state.savings_households)
                       /\ IsNum(state.savings_firms),
     state |-> state]

StepChecked(full, mem, prev, alpha, rho, fl, det) ==
    Outcome(full, det, fl,
            NewState(prev, alpha, rho, fl, Outliers(full, mem, prev, det)))

\* a step() that also checks a history one state short of full
StepResolved_EarlyCheck(h, mem, prev, alpha, rho) ==
    StepChecked(Len(h) >= mem - 1, mem, prev, alpha, rho,
                Fallback(prev, Equilibrium(prev, alpha, rho)),
                IF Len(h) >= mem - 1 THEN AnomalyCheck(h, alpha, rho)
                ELSE NotChecked)

StepResolved(h, mem, prev, alpha, rho) ==
    StepChecked(Len(h) = mem, mem, prev, alpha, rho,
                Fallback(prev, Equilibrium(prev, alpha, rho)),
                IF Len(h) = mem THEN AnomalyCheck(h, alpha, rho)
                ELSE NotChecked)

\* the whole of step() as a function of the engine and its inputs
StepOutcome(h, s, mem, ain, rin) ==
    StepResolved(h, mem, Last(h),
                 ResolveProp(ain, Last(h).alpha, s),
                 ResolveProp(rin, Last(h).rho, s))

\* a total that leaves the wages out
flow_total_NoWages(now) ==
    RAdd(RAdd(now.consumption, now.savings_households), now.savings_firms)

\* total = consumption + wages + savings_households + savings_firms
flow_total(now) ==
    RAdd(RAdd(RAdd(now.consumption, now.wages), now.savings_households),
         now.savings_firms)

\* a normalisation without the total == 0 guard
normalised_NoGuard(now, total) ==
    <<<<RDiv(now.savings_households, total), RDiv(now.consumption, total)>>,
      <<RDiv(now.wages, total), RDiv(now.savings_firms, total)>>>>

\* the zero matrix when total == 0, else every component over the total
normalised(now, total) ==
    IF total = Zero THEN <<<<Zero, Zero>>, <<Zero, Zero>>>>
    ELSE <<<<RDiv(now.savings_households, total), RDiv(now.consumption, total)>>,
           <<RDiv(now.wages, total), RDiv(now.savings_firms, total)>>>>

\* get_matrix(): the normalised 2x2 flow matrix of the latest state
get_matrix(h) == normalised(Last(h), flow_total(Last(h)))

Entries(m) == {m[i][j] : i \in 1..2, j \in 1..2}

OutOfRange(in) == in.kind = "override" /\ (in.v < PropMin \/ in.v > PropMax)

----------------------------------------------------------------------------
(* The state machine *)

Init ==
    /\ engine = "none"
    /\ sens = 0
    /\ mem_input = 0
    /\ t = 0
    /\ history = <<>>
    /\ ctor = None
    /\ lastCall = NoCall
    /\ badOverride = FALSE
    /\ sys = None

\* EconomyNetwork(sens, mem_input, discounts, prop, savings, c0, w0)
Construct ==
    /\ engine = "none"
    /\ \E s \in SensSet, m \in MemSet, e \in EconSet :
          LET a == [sens |-> s, mem_input |-> m, discounts |-> e.discounts,
                    prop |-> e.prop, savings |-> e.savings,
                    consumption_init |-> e.flow[1], wages_init |-> e.flow[2]]
          IN  IF InvalidArgs(a)
              THEN /\ lastCall' = [NoCall EXCEPT !.op = "init", !.raised = "ValueError",
                                                 !.args = a]
                   /\ UNCHANGED <<engine, sens, mem_input, t, history, ctor, badOverride, sys>>
              ELSE /\ engine' = "live"
                   /\ sens' = s
                   /\ mem_input' = m
                   /\ t' = 0
                   /\ history' = <<initial_state(a)>>
                   /\ ctor' = a
                   /\ lastCall' = [NoCall EXCEPT !.op = "init", !.args = a]
                   /\ UNCHANGED <<badOverride, sys>>

\* a step() that counts the tick before it calls the detector
StepEffect_TickFirst(in, out) ==
    /\ out.representable
    /\ badOverride' = (badOverride \/ OutOfRange(in[1]) \/ OutOfRange(in[2]))
    /\ lastCall' = [NoCall EXCEPT
           !.op = "step", !.alpha_in = in[1], !.rho_in = in[2],
           !.fallback = out.fallback, !.detector = out.detector,
           !.alpha_vals = out.alpha_vals, !.rho_vals = out.rho_vals,
           !.raised = IF out.raises THEN "ValueError" ELSE "none"]
    /\ t' = t + 1
    /\ history' = IF out.raises THEN history
                  ELSE DequeAppend(history, out.state, mem_input)
    /\ UNCHANGED <<engine, sens, mem_input, ctor>>

\* the effect of a step() call on the engine
StepEffect(in, out) ==
    /\ out.representable
    /\ badOverride' = (badOverride \/ OutOfRange(in[1]) \/ OutOfRange(in[2]))
    /\ lastCall' = [NoCall EXCEPT
           !.op = "step", !.alpha_in = in[1], !.rho_in = in[2],
           !.fallback = out.fallback, !.detector = out.detector,
           !.alpha_vals = out.alpha_vals, !.rho_vals = out.rho_vals,
           !.raised = IF out.raises THEN "ValueError" ELSE "none"]
    /\ t' = IF out.raises THEN t ELSE t + 1
    /\ history' = IF out.raises THEN history
                  ELSE DequeAppend(history, out.state, mem_input)
    /\ UNCHANGED <<engine, sens, mem_input, ctor>>

\* step(alpha_override, rho_override)
Step ==
    /\ engine = "live"
    /\ t < MaxTicks
    /\ \E in \in StepInputs :
          StepEffect(in, StepOutcome(history, sens, mem_input, in[1], in[2]))
    /\ UNCHANGED sys

MatrixReturned(m) ==
    /\ Ovf \notin Entries(m)
    /\ lastCall' = [NoCall EXCEPT
           !.op = "get_matrix", !.ret = m,
           !.raised = IF ZeroDiv \in Entries(m) THEN "ZeroDivisionError" ELSE "none"]

\* a get_matrix() that consumes the state it reports
GetMatrix_Consuming ==
    /\ engine = "live"
    /\ Len(history) > 1
    /\ MatrixReturned(get_matrix(history))
    /\ history' = SubSeq(history, 1, Len(history) - 1)
    /\ UNCHANGED <<engine, sens, mem_input, t, ctor, badOverride, sys>>

\* get_matrix()
GetMatrix ==
    /\ engine = "live"
    /\ MatrixReturned(get_matrix(history))
    /\ UNCHANGED <<engine, sens, mem_input, t, history, ctor, badOverride, sys>>

Next == Construct \/ Step \/ GetMatrix

Spec == Init /\ [][Next]_vars

----------------------------------------------------------------------------
(* Long runs: an engine without savings (all flows stay zero), with a      *)
(* memory of LongMem, stepped past the point where evictions begin.        *)

LongArgs ==
    { [sens |-> 50, mem_input |-> LongMem, discounts |-> <<Zero, Zero>>,
       prop |-> p, savings |-> <<Zero, Zero>>,
       consumption_init |-> Zero, wages_init |-> Zero] :
      p \in {<<0, 100>>, <<50, 50>>} }

LongInputs ==
    { <<Dr(-1), Dr(1)>>, <<Dr(1), Dr(-1)>>, <<Dr(0), Dr(0)>>,
      <<Ov(0), Ov(100)>>, <<Ov(50), Ov(50)>> }

\* the engine as EconomyNetwork(**a) leaves it
LongInit ==
    \E a \in LongArgs :
        /\ ~InvalidArgs(a)
        /\ engine = "live"
        /\ sens = a.sens
        /\ mem_input = a.mem_input
        /\ t = 0
        /\ history = <<initial_state(a)>>
        /\ ctor = a
        /\ lastCall = [NoCall EXCEPT !.op = "init", !.args = a]
        /\ badOverride = FALSE
        /\ sys = None

\* step(alpha_override, rho_override)
LongStep ==
    /\ engine = "live"
    /\ t < LongTicks
    /\ \E in \in LongInputs :
          StepEffect(in, StepOutcome(history, sens, mem_input, in[1], in[2]))
    /\ UNCHANGED sys

LongSpec == LongInit /\ [][LongStep]_vars

----------------------------------------------------------------------------
(* The earlier engine: src/sim.py, class EconomyNetwork.  It has no        *)
(* overrides, no discount factors, no memory and no fallback.              *)

\* self.sys = {0: {...}}
legacy_init(savings, prop) ==
    [alpha |-> prop[1], ro |-> prop[2], c |-> Zero, w |-> Zero,
     s_h |-> savings[1], s_f |-> savings[2]]

\* max(0.01, min(0.99, prev + random.uniform(-sens, sens)))
legacy_walk(prevval, draw, s) ==
    IMax(PropMin, IMin(PropMax, prevval + draw * s))

\* a consumption that leaves the firms' savings out
legacy_c_NoFirmSavings(alpha, ro, prev) ==
    RMul(RInv(RSub(RInv(R(alpha, 100)), R(ro, 100))), prev.s_h)

\* c = (1/alpha - ro)**(-1) * (ro * s_f + s_h)
legacy_c(alpha, ro, prev) ==
    RMul(RInv(RSub(RInv(R(alpha, 100)), R(ro, 100))),
         RAdd(RMul(R(ro, 100), prev.s_f), prev.s_h))

\* w = (1/ro - alpha)**(-1) * (alpha * s_h + s_f)
legacy_w(alpha, ro, prev) ==
    RMul(RInv(RSub(RInv(R(ro, 100)), R(alpha, 100))),
         RAdd(RMul(R(alpha, 100), prev.s_h), prev.s_f))

\* self.sys[t+1]
legacy_state(alpha, ro, prev, c, w) ==
    [alpha |-> alpha, ro |-> ro, c |-> c, w |-> w,
     s_h |-> RSub(RAdd(prev.s_h, w), c),
     s_f |-> RSub(RAdd(prev.s_f, c), w)]

legacy_flows(alpha, ro, prev) ==
    legacy_state(alpha, ro, prev,
                 legacy_c(alpha, ro, prev), legacy_w(alpha, ro, prev))

\* step() of src/sim.py on the latest state, for the two draws
legacy_step(prev, s, ain, rin) ==
    legacy_flows(legacy_walk(prev.alpha, ain.v, s),
                 legacy_walk(prev.ro, rin.v, s), prev)

\* the new state is stored, unless a ZeroDivisionError left step() early
LegacyEffect(next) ==
    /\ Ovf \notin {next.c, next.w, next.s_h, next.s_f}
    /\ sys' = IF ZeroDiv \in {next.c, next.w, next.s_h, next.s_f} THEN sys
              ELSE Append(sys, next)

----------------------------------------------------------------------------
(* Paired runs: the two engines are built from the same propensities and   *)
(* savings and step on the same draws, so they resolve the same alpha and  *)
(* rho.                                                                    *)

PairArgs ==
    { [sens |-> 25, mem_input |-> MaxMem, discounts |-> d,
       prop |-> p, savings |-> sv,
       consumption_init |-> Zero, wages_init |-> Zero] :
      d \in {<<Zero, Zero>>, <<Half, Zero>>},
      p \in {<<50, 50>>, <<0, 100>>},
      sv \in {<<One, One>>, <<<<-3, 1>>, One>>} }

PairInputs ==
    { <<Dr(-1), Dr(1)>>, <<Dr(1), Dr(-1)>>, <<Dr(0), Dr(0)>>,
      <<Dr(1), Dr(1)>>, <<Dr(-1), Dr(0)>> }

\* EconomyNetwork(**a) of src/src/sim.py and
\* EconomyNetwork(savings, prop, sens) of src/sim.py
PairInit ==
    \E a \in PairArgs :
        /\ ~InvalidArgs(a)
        /\ engine = "live"
        /\ sens = a.sens
        /\ mem_input = a.mem_input
        /\ t = 0
        /\ history = <<initial_state(a)>>
        /\ ctor = a
        /\ lastCall = [NoCall EXCEPT !.op = "init", !.args = a]
        /\ badOverride = FALSE
        /\ sys = <<legacy_init(a.savings, a.prop)>>

\* one step() of each engine on the same two draws
PairStep ==
    /\ engine = "live"
    /\ t < PairTicks
    /\ \E in \in PairInputs :
          /\ StepEffect(in, StepOutcome(history, sens, mem_input, in[1], in[2]))
          /\ LegacyEffect(legacy_step(Last(sys), sens, in[1], in[2]))

PairSpec == PairInit /\ [][PairStep]_vars

----------------------------------------------------------------------------
(* The anomaly detector called directly, once: no engine is constructed,   *)
(* lastCall records the call, its arguments and its outcome.               *)

\* all sequences over vals of the lengths lo .. hi
Seqs(vals, lo, hi) == UNION {[1..n -> vals] : n \in lo..hi}

\* propensities in hundredths
SeriesValues == {0, 50, 99}

ResidualValues == {-5, -1, 0, 1, 5}

FactorSet == {IqrFactor, One}

DetectorReturned(timeseries, out) ==
    lastCall' = [NoCall EXCEPT
        !.op = "detect_anomaly", !.args = timeseries,
        !.raised = IF out.raised THEN "ValueError" ELSE "none",
        !.error = out.error, !.ret = out.value]

\* detect_anomaly(timeseries)
DetectAnomaly ==
    /\ engine = "none"
    /\ lastCall = NoCall
    /\ \E timeseries \in Seqs(SeriesValues, 0, MaxLen) :
          DetectorReturned(timeseries, detect_anomaly(timeseries))
    /\ UNCHANGED <<engine, sens, mem_input, t, history, ctor, badOverride, sys>>

IqrReturned(residuals, f, out) ==
    lastCall' = [NoCall EXCEPT
        !.op = "_iqr", !.args = <<residuals, f>>, !.ret = out]

\* _iqr(residuals, factor) on a non-empty sequence
Iqr ==
    /\ engine = "none"
    /\ lastCall = NoCall
    /\ \E residuals \in Seqs(ResidualValues, 1, MaxLen), f \in FactorSet :
          IqrReturned(residuals, f, iqr(residuals, f))
    /\ UNCHANGED <<engine, sens, mem_input, t, history, ctor, badOverride, sys>>

DetectorNext == DetectAnomaly \/ Iqr

DetectorSpec == Init /\ [][DetectorNext]_vars

----------------------------------------------------------------------------
(* Properties *)

Live == engine = "live"

\* the last call was a step() that completed (appended a state)
Stepped == Live /\ lastCall.op = "step" /\ lastCall.raised = "none"

\* the state step() started from, once a step has completed
Prev == history[Len(history) - 1]

Now == Last(history)

InRange(p) == PropMin <= p /\ p <= PropMax

\* C1: the history holds min(t + 1, memory) states after t completed
\* steps, so never more than memory
C1_HistoryLength ==
    Live => /\ Len(history) = IMin(t + 1, mem_input)
            /\ Len(history) <= mem_input

\* a step completed on a full history: the oldest state was evicted
C1_Witness == Stepped /\ t >= mem_input /\ Len(history) = mem_input

\* C2: a step() whose anomaly detector fails still completes the tick,
\* with false as the new flag of both variables
C2_DetectorFailureAbsorbed ==
    [][(lastCall'.op = "step" /\ lastCall'.detector = "raised")
        => /\ lastCall'.raised = "none"
           /\ t' = t + 1
           /\ Last(history') # Last(history)
           /\ ~Last(Last(history').outliers.alpha)
           /\ ~Last(Last(history').outliers.rho)]_vars

\* C3 as stated: with no out-of-range override, every state of the
\* history, the seed included, has alpha and rho in [0.01, 0.99]
C3_AllStatesInRange ==
    (Live /\ ~badOverride) =>
        \A i \in 1..Len(history) : InRange(history[i].alpha) /\ InRange(history[i].rho)

\* the seed state is history[1] until the deque evicts it
IsSeed(i) == i = 1 /\ t < mem_input

\* C3 amended: with no out-of-range override, every state created by
\* step() has alpha and rho in [0.01, 0.99]; the seed state has them in [0, 1]
C3_SteppedStatesInRange ==
    (Live /\ ~badOverride) =>
        \A i \in 1..Len(history) :
            IF IsSeed(i)
            THEN /\ 0 <= history[i].alpha /\ history[i].alpha <= 100
                 /\ 0 <= history[i].rho /\ history[i].rho <= 100
            ELSE InRange(history[i].alpha) /\ InRange(history[i].rho)

\* steps from a seed outside [0.01, 0.99], one of them with an in-range override
C3_Witness ==
    /\ Stepped /\ ~badOverride /\ t >= 2
    /\ IsSeed(1) /\ ~InRange(history[1].alpha)
    /\ lastCall.alpha_in.kind = "override"

\* C4: construction raises exactly when sens <= 0, or memory < 2, or a
\* propensity is outside [0, 1]; a failed construction leaves no engine, a
\* successful one leaves the seed state
C4_ConstructionValidation ==
    lastCall.op = "init" =>
        LET a   == lastCall.args
            bad == \/ a.sens <= 0
                   \/ a.mem_input < 2
                   \/ a.prop[1] < 0 \/ a.prop[1] > 100
                   \/ a.prop[2] < 0 \/ a.prop[2] > 100
        IN  /\ (lastCall.raised = "ValueError") <=> bad
            /\ bad => engine = "none" /\ history = <<>>
            /\ ~bad => Live /\ Len(history) = 1 /\ mem_input = a.mem_input

\* construction with memory = 1 and everything else valid was refused
C4_Witness ==
    /\ lastCall.op = "init" /\ lastCall.raised = "ValueError"
    /\ lastCall.args.mem_input = 1 /\ lastCall.args.sens > 0
    /\ \A i \in 1..2 : 0 <= lastCall.args.prop[i] /\ lastCall.args.prop[i] <= 100
    /\ engine = "none"

\* C5: an override is stored verbatim; a propensity without override takes
\* the clamped random walk, whatever the other propensity got
C5_OverrideVerbatim ==
    Stepped =>
        LET Resolved(in, prevval, new) ==
                IF in.kind = "override" THEN new = in.v
                ELSE LET x == prevval + in.v * sens
                     IN  new = (IF x < 1 THEN 1 ELSE IF x > 99 THEN 99 ELSE x)
        IN  /\ Resolved(lastCall.alpha_in, Prev.alpha, Now.alpha)
            /\ Resolved(lastCall.rho_in, Prev.rho, Now.rho)

\* an out-of-range override for alpha was stored while rho walked
C5_Witness ==
    /\ Stepped
    /\ lastCall.alpha_in.kind = "override" /\ ~InRange(lastCall.alpha_in.v)
    /\ Now.alpha = lastCall.alpha_in.v
    /\ lastCall.rho_in.kind = "draw" /\ Now.rho # Prev.rho

\* the spec's closed-form equilibrium, from the new propensities (in
\* hundredths) and the previous savings
ClosedFormC(alpha, rho, prev) ==
    RDiv(RAdd(RMul(R(rho, 100), prev.savings_firms), prev.savings_households),
         RSub(RInv(R(alpha, 100)), R(rho, 100)))

ClosedFormW(alpha, rho, prev) ==
    RDiv(RAdd(RMul(R(alpha, 100), prev.savings_households), prev.savings_firms),
         RSub(RInv(R(rho, 100)), R(alpha, 100)))

\* C6 as stated: whenever no division by zero occurred, the new consumption
\* and wages are the closed-form values, for every engine configuration
C6_ClosedForm ==
    (Stepped /\ ~lastCall.fallback) =>
        /\ Now.consumption = ClosedFormC(Now.alpha, Now.rho, Prev)
        /\ Now.wages = ClosedFormW(Now.alpha, Now.rho, Prev)

\* C6 amended: the closed form holds when both discount factors are 0
C6_ClosedFormNoDiscount ==
    (Stepped /\ ~lastCall.fallback /\ Now.beta = Zero /\ Now.delta = Zero) =>
        /\ Now.consumption = ClosedFormC(Now.alpha, Now.rho, Prev)
        /\ Now.wages = ClosedFormW(Now.alpha, Now.rho, Prev)

\* a second or later step without discounts solved the equilibrium
C6_Witness ==
    /\ Stepped /\ ~lastCall.fallback /\ t >= 2
    /\ Now.beta = Zero /\ Now.delta = Zero
    /\ Now.consumption # Zero /\ Now.consumption # Now.wages

\* C7: a step moves wages - consumption from the firms' savings to the
\* households', so the two savings always add up to the constructor's total
C7_SavingsConserved ==
    /\ Stepped =>
        /\ Now.savings_households =
               RSub(RAdd(Prev.savings_households, Now.wages), Now.consumption)
        /\ Now.savings_firms =
               RSub(RAdd(Prev.savings_firms, Now.consumption), Now.wages)
    /\ Live => RAdd(Now.savings_households, Now.savings_firms)
                   = RAdd(ctor.savings[1], ctor.savings[2])

\* a step that took the fallback still moved savings
C7_Witness ==
    /\ Stepped /\ lastCall.fallback /\ t >= 2
    /\ Now.consumption # Now.wages
    /\ Now.savings_households # Prev.savings_households

\* C8: a step() that hits a division by zero does not raise, keeps the
\* previous consumption and wages and appends a state
C8_FallbackCompletes ==
    [][(lastCall'.op = "step" /\ lastCall'.fallback)
        => /\ lastCall'.raised = "none"
           /\ t' = t + 1
           /\ Last(history').consumption = Last(history).consumption
           /\ Last(history').wages = Last(history).wages]_vars

InUnit(x) == 0 <= x[1] /\ x[1] <= x[2]

NonNeg(x) == x[1] >= 0

EntrySum(m) == RAdd(RAdd(RAdd(m[1][1], m[1][2]), m[2][1]), m[2][2])

\* C9 as stated: with a non-zero total every entry of get_matrix() is in
\* [0, 1] and the entries add up to 1
C9_MatrixNormalised ==
    (lastCall.op = "get_matrix" /\ flow_total(Now) # Zero) =>
        /\ \A x \in Entries(lastCall.ret) : InUnit(x)
        /\ EntrySum(lastCall.ret) = One

\* C9 amended: with a non-zero total the entries add up to 1, and they are
\* in [0, 1] when no component of the latest state is negative
C9_MatrixSumsToOne ==
    (lastCall.op = "get_matrix" /\ flow_total(Now) # Zero) =>
        /\ EntrySum(lastCall.ret) = One
        /\ (/\ NonNeg(Now.consumption) /\ NonNeg(Now.wages)
            /\ NonNeg(Now.savings_households) /\ NonNeg(Now.savings_firms))
           => \A x \in Entries(lastCall.ret) : InUnit(x)

\* get_matrix() after two steps, on non-negative flows
C9_Witness ==
    /\ Live /\ lastCall.op = "get_matrix" /\ t >= 2
    /\ flow_total(Now) # Zero
    /\ NonNeg(Now.savings_households) /\ NonNeg(Now.savings_firms)
    /\ Now.consumption[1] > 0 /\ Now.wages[1] > 0
    /\ lastCall.ret[1][2] # Zero

\* C10: with a total of exactly 0, get_matrix() returns the zero matrix and
\* raises no division error
C10_ZeroTotalZeroMatrix ==
    (lastCall.op = "get_matrix" /\ flow_total(Now) = Zero) =>
        /\ lastCall.raised = "none"
        /\ lastCall.ret = <<<<Zero, Zero>>, <<Zero, Zero>>>>

\* get_matrix() on an empty economy, after a step
C10_Witness ==
    /\ Live /\ lastCall.op = "get_matrix" /\ t >= 1
    /\ flow_total(Now) = Zero
    /\ lastCall.ret = <<<<Zero, Zero>>, <<Zero, Zero>>>>

\* C11: for each tracked variable, the outlier-flag sequence of the latest
\* state is as long as the history, after construction and after every
\* step(), hence never longer than the memory; the seed's flags are [False].
C11_FlagsAsLongAsHistory ==
    Live =>
        /\ Len(Now.outliers.alpha) = Len(history)
        /\ Len(Now.outliers.rho) = Len(history)
        /\ Len(Now.outliers.alpha) <= mem_input
        /\ Len(Now.outliers.rho) <= mem_input
        /\ (t = 0 => Now.outliers = [alpha |-> <<FALSE>>, rho |-> <<FALSE>>])

\* a step on a full history whose detector ran: the flags were trimmed
C11_Witness ==
    /\ Stepped
    /\ lastCall.detector = "ran"
    /\ Len(history) = mem_input
    /\ Len(Now.outliers.alpha) = mem_input

\* C13: get_matrix() changes neither the history nor the tick counter, and
\* a second call with no step() in between returns the same matrix: the
\* matrix just returned is the matrix of the state the call leaves behind.
C13_GetMatrixReadOnly ==
    [][lastCall'.op = "get_matrix" =>
          /\ history' = history
          /\ t' = t
          /\ lastCall'.ret = get_matrix(history')]_vars

\* get_matrix() has returned a non-zero matrix of a stepped engine
C13_Witness ==
    /\ Live
    /\ t >= 1
    /\ lastCall.op = "get_matrix"
    /\ lastCall.raised = "none"
    /\ lastCall.ret # <<<<Zero, Zero>>, <<Zero, Zero>>>>
    /\ lastCall.ret = get_matrix(history)

\* C14: detect_anomaly on an empty series fails with the empty-input
\* error, raised before the period is computed or a decomposition tried.
C14_EmptySeriesRejected ==
    (lastCall.op = "detect_anomaly" /\ lastCall.args = <<>>) =>
        /\ lastCall.raised = "ValueError"
        /\ lastCall.error = "empty"

\* detect_anomaly has been called with an empty series and has raised
C14_Witness ==
    /\ lastCall.op = "detect_anomaly"
    /\ lastCall.args = <<>>
    /\ lastCall.raised = "ValueError"

\* the k-th smallest element of the sequence a, by counting
Kth(a, k) ==
    CHOOSE x \in {a[j] : j \in DOMAIN a} :
        /\ Cardinality({j \in DOMAIN a : a[j] < x}) < k
        /\ Cardinality({j \in DOMAIN a : a[j] <= x}) >= k

\* 100 * the q-th percentile of a, interpolated between the order statistics
Quartile(a, q) ==
    IF (q * (Len(a) - 1)) % 100 = 0
    THEN 100 * Kth(a, (q * (Len(a) - 1)) \div 100 + 1)
    ELSE 100 * Kth(a, (q * (Len(a) - 1)) \div 100 + 1)
         + ((q * (Len(a) - 1)) % 100)
           * (Kth(a, (q * (Len(a) - 1)) \div 100 + 2)
              - Kth(a, (q * (Len(a) - 1)) \div 100 + 1))

\* r[i] < Q1 - f * IQR or r[i] > Q3 + f * IQR, f = n / d, scaled by 100 * d
Outside(r, f, i) ==
    \/ 100 * f[2] * r[i]
           < f[2] * Quartile(r, 25) - f[1] * (Quartile(r, 75) - Quartile(r, 25))
    \/ 100 * f[2] * r[i]
           > f[2] * Quartile(r, 75) + f[1] * (Quartile(r, 75) - Quartile(r, 25))

\* C15: on a non-empty residual sequence the IQR test is true exactly when
\* the last residual is strictly below Q1 - f * IQR or strictly above
\* Q3 + f * IQR, Q1 and Q3 being the 25th and 75th percentiles of the whole
\* sequence; a residual other than the last does not make it true.
C15_IqrTestsLastResidual ==
    lastCall.op = "_iqr" =>
        lastCall.ret = Outside(lastCall.args[1], lastCall.args[2],
                               Len(lastCall.args[1]))

\* the test returned false although an earlier residual lies outside
C15_Witness ==
    /\ lastCall.op = "_iqr"
    /\ lastCall.ret = FALSE
    /\ \E i \in 1..(Len(lastCall.args[1]) - 1) :
           Outside(lastCall.args[1], lastCall.args[2], i)

\* C16: step() calls the detector only when the history holds exactly
\* mem_input states at the start of the step, and passes the mem_input
\* historical values, oldest first, followed by the newly resolved value;
\* on a shorter history the detector is not called, False is appended to
\* both flag sequences and the step does not raise.
C16_DetectorOnFullHistory ==
    [][lastCall'.op = "step" =>
          IF Len(history) = mem_input
          THEN /\ lastCall'.detector \in {"ran", "raised"}
               /\ Len(lastCall'.alpha_vals) = mem_input + 1
               /\ Len(lastCall'.rho_vals) = mem_input + 1
               /\ \A i \in 1..mem_input :
                      /\ lastCall'.alpha_vals[i] = history[i].alpha
                      /\ lastCall'.rho_vals[i] = history[i].rho
               /\ lastCall'.raised = "none" =>
                      /\ lastCall'.alpha_vals[mem_input + 1] = Last(history').alpha
                      /\ lastCall'.rho_vals[mem_input + 1] = Last(history').rho
               /\ lastCall'.alpha_in.kind = "override" =>
                      lastCall'.alpha_vals[mem_input + 1] = lastCall'.alpha_in.v
               /\ lastCall'.rho_in.kind = "override" =>
                      lastCall'.rho_vals[mem_input + 1] = lastCall'.rho_in.v
          ELSE /\ lastCall'.detector = "skipped"
               /\ lastCall'.alpha_vals = None
               /\ lastCall'.rho_vals = None
               /\ lastCall'.raised = "none"
               /\ Last(history').outliers.alpha
                      = Append(Last(history).outliers.alpha, FALSE)
               /\ Last(history').outliers.rho
                      = Append(Last(history).outliers.rho, FALSE)]_vars

\* a step whose detector ran on mem_input + 1 values that are not all equal
C16_Witness ==
    /\ Stepped
    /\ lastCall.detector = "ran"
    /\ Len(lastCall.alpha_vals) = mem_input + 1
    /\ lastCall.alpha_vals[1] # lastCall.alpha_vals[mem_input + 1]
    /\ lastCall.alpha_vals[mem_input + 1] = Now.alpha

\* C17: a successful step() appends exactly one state, as the newest; on a
\* full history only the oldest state is evicted; the states that remain
\* keep their order and every field, their outlier flags included.
C17_AppendOneEvictOldest ==
    [][(lastCall'.op = "step" /\ lastCall'.raised = "none") =>
          /\ Len(history') = IF Len(history) = mem_input THEN mem_input
                              ELSE Len(history) + 1
          /\ \A i \in 1..(Len(history') - 1) :
                 history'[i] = IF Len(history) = mem_input THEN history[i + 1]
                               ELSE history[i]
          /\ t' = t + 1]_vars

\* a step on a full history: the oldest state went, the others moved up
C17_Witness ==
    /\ Stepped
    /\ t >= mem_input
    /\ lastCall.detector = "ran"
    /\ Len(history) = mem_input
    /\ history[1] # history[2]
    /\ history[1].outliers.alpha # Now.outliers.alpha

\* clamp(x, 0.01, 0.99)
Clamp(x) == IF x < PropMin THEN PropMin ELSE IF x > PropMax THEN PropMax ELSE x

\* the new value p of a propensity that had no override: in [0.01, 0.99]
\* and the clamped sum of the previous value q and the draw
Walked(p, q, in) ==
    /\ InRange(p)
    /\ \E u \in (-sens)..sens : u = in.v * sens /\ p = Clamp(q + u)

\* C18: after a step() without an override for a propensity, its new value
\* lies in [0.01, 0.99] whatever the previous value was (a seed of 0 or 1,
\* an earlier override out of range) and equals
\* clamp(previous + u, 0.01, 0.99) for the draw u in [-sens, sens].
C18_RandomWalkClamped ==
    Stepped =>
        /\ lastCall.alpha_in.kind = "draw" =>
               Walked(Now.alpha, Prev.alpha, lastCall.alpha_in)
        /\ lastCall.rho_in.kind = "draw" =>
               Walked(Now.rho, Prev.rho, lastCall.rho_in)

\* a draw that took a propensity from outside [0.01, 0.99] onto the floor
C18_Witness ==
    /\ Stepped
    /\ lastCall.alpha_in.kind = "draw"
    /\ ~InRange(Prev.alpha)
    /\ Now.alpha = PropMin
    /\ badOverride

\* C19: a step() that raises leaves the engine as it was before the call:
\* the history, with its length and contents, and the tick counter are
\* unchanged, so a later step() starts from the same previous state.
C19_RaisingStepChangesNothing ==
    [][(lastCall'.op = "step" /\ lastCall'.raised # "none") =>
          /\ history' = history
          /\ t' = t
          /\ Last(history') = Last(history)
          /\ UNCHANGED <<engine, sens, mem_input>>]_vars

\* a step() of an engine that had already stepped has raised
C19_Witness ==
    /\ Live
    /\ lastCall.op = "step"
    /\ lastCall.raised = "ValueError"
    /\ lastCall.detector = "raised"
    /\ t >= 1
    /\ Len(history) = mem_input

\* C20: for each tracked variable the flags of the latest state are aligned
\* with the history: at every index i of the history, the latest state's
\* i-th flag is the flag computed for history[i] when it was created (the
\* last element of history[i]'s own flags), before and after evictions.
C20_FlagsAlignedWithHistory ==
    Live =>
        \A i \in 1..Len(history) :
            /\ i \in DOMAIN Now.outliers.alpha
            /\ i \in DOMAIN Now.outliers.rho
            /\ Now.outliers.alpha[i] = Last(history[i].outliers.alpha)
            /\ Now.outliers.rho[i] = Last(history[i].outliers.rho)

\* after an eviction the latest state carries a True flag of an older state
C20_Witness ==
    /\ Stepped
    /\ t > mem_input
    /\ Len(history) = mem_input
    /\ \E i \in 1..(Len(history) - 1) :
           /\ Now.outliers.alpha[i] = TRUE
           /\ Last(history[i].outliers.alpha) = TRUE

\* the two engines have made the same steps and resolved the same values
SameInputs ==
    /\ Live
    /\ sys # None
    /\ Len(sys) = t + 1
    /\ Now.alpha = Last(sys).alpha
    /\ Now.rho = Last(sys).ro

\* C21: with both discount factors 0, the engine of src/src/sim.py and the
\* engine of src/sim.py, started from the same propensities and savings
\* and given the same resolved alpha and rho in (0, 1), have the same
\* consumption, wages, household savings and firm savings at every step.
C21_ModelsEquivalent ==
    (SameInputs /\ Now.beta = Zero /\ Now.delta = Zero) =>
        /\ Now.consumption = Last(sys).c
        /\ Now.wages = Last(sys).w
        /\ Now.savings_households = Last(sys).s_h
        /\ Now.savings_firms = Last(sys).s_f

\* a third or later paired step with flows that moved the savings
C21_Witness ==
    /\ SameInputs
    /\ Stepped
    /\ t >= 3
    /\ Now.beta = Zero /\ Now.delta = Zero
    /\ InRange(Now.alpha) /\ InRange(Now.rho)
    /\ Now.consumption # Zero
    /\ Now.consumption # Now.wages
    /\ Now.savings_households # ctor.savings[1]
    /\ Now.consumption = Last(sys).c
    /\ Now.savings_firms = Last(sys).s_f

====
